---- MODULE Spec2Model ----
(***************************************************************************)
(* A model of the monty compiler front-end: the type store and its         *)
(* unification (typechecker/inference_engine.py, typechecker/type_info.py),*)
(* the MIR block builder (mir/ebb.py), the AST lowering (mir/builder.py)   *)
(* and the driver (driver.py).                                             *)
(***************************************************************************)
EXTENDS Integers, Sequences, FiniteSets, TLC

VARIABLES
    mapping,    \* InferenceEngine: the type store, entry i+1 holds TypeId i
    last,       \* the most recent call on the type store and its outcome
    fb,         \* the FluidBlock: its fields, as in mir/ebb.py
    heap,       \* the BasicBlock objects, by address (their bodies are shared lists)
    contexts,   \* the with_block contexts that are open: their previous_block_id
    ebb,        \* the Ebb the last finalize() returned (its blocks are addresses)
    finalized,  \* what that Ebb read as when finalize() returned
    handed,     \* the SSA slots _emit has given to an instruction, in order
    calls,      \* the number of calls made on the FluidBlock
    rev,        \* reveal_type on one unit: its scopes and the call just made
    drv,        \* one call of compile_source: its arguments, phase and unit
    mir,        \* the MirBuilder lowering one function: its statements and progress
    fb_last     \* the call just made on the FluidBlock, when an emitting one: its outcome

storeVars == <<mapping, last>>

fluidVars == <<fb, heap, contexts, ebb, finalized, handed, calls, fb_last>>

vars == <<storeVars, fluidVars, mir, drv, rev>>

(***************************************************************************)
(* Bounds of the model.                                                    *)
(***************************************************************************)
MaxStore == 3           \* largest number of entries the type store grows to
MaxBlocks == 2          \* largest number of blocks a FluidBlock is given
MaxInstrs == 2          \* largest number of instructions emitted into a FluidBlock
MaxSSA == 2             \* largest number of SSA slots a FluidBlock allocates
MaxNest == 1            \* deepest nesting of with_block contexts
MaxCalls == 6           \* longest sequence of calls made on one FluidBlock
MaxBody == 2            \* longest statement list of a lowered function or If arm

(***************************************************************************)
(* typechecker/type_info.py: the type descriptors.                         *)
(***************************************************************************)
PrimitiveKinds == {"Unknown", "Bool", "I64"}

Primitive(kind) == [tag |-> "Primitive", name |-> kind]

Unknown == Primitive("Unknown")

List(kind) == [tag |-> "List", kind |-> kind]

Callable(parameters, output) ==
    [tag |-> "Callable", parameters |-> parameters, output |-> output]

Ref(target) == [tag |-> "Ref", target |-> target]

isinstance(ty, cls) == ty.tag = cls

(***************************************************************************)
(* utils.SSAMap: the indexable table InferenceEngine extends.               *)
(***************************************************************************)
TypeIds(store) == 0 .. (Len(store) - 1)

getitem(store, type_id) == store[type_id + 1]

setitem(store, type_id, info) == [store EXCEPT ![type_id + 1] = info]

None == -1

\* append, the new entry's id is returned
insert(store, thing) == [store |-> Append(store, thing), id |-> Len(store)]

\* linear-equality lookup: the first matching id, or None
get_by_value(store, thing) ==
    LET hits == {i \in TypeIds(store) : getitem(store, i) = thing}
    IN  IF hits = {} THEN None
        ELSE CHOOSE i \in hits : \A j \in hits : i <= j

(***************************************************************************)
(* InferenceEngine.get_id_or_insert: `get_by_value(thing) or insert(thing)`.*)
(* Python's `or` takes its right operand when the left one is falsy: None  *)
(* and the integer 0 both are.                                             *)
(***************************************************************************)
falsy(v) == v = None \/ v = 0

get_id_or_insert(store, thing) ==
    LET found == get_by_value(store, thing)
    IN  IF ~falsy(found) THEN [store |-> store, id |-> found]
        ELSE insert(store, thing)

(***************************************************************************)
(* InferenceEngine.unify.  The recursion is Python's: a call that never    *)
(* returns ends in RecursionError once the interpreter's stack is used up; *)
(* RecursionLimit is deeper than any descent that does terminate in a      *)
(* store of MaxStore entries.                                              *)
(***************************************************************************)
RecursionLimit == 2 * MaxStore + 2

\* a unify that binds the left entry without looking at what it holds: the
\* variant the frame property of unify must tell apart from the code
unify_overwriting(store, left, right, depth) ==
    [store |-> setitem(store, left, Ref(right)), status |-> "ok"]

RECURSIVE unify(_, _, _, _)
unify(store, left, right, depth) ==
    LET left_ty == getitem(store, left)
        right_ty == getitem(store, right)
    IN  IF depth = 0
        THEN [store |-> store, status |-> "RecursionError"]
        ELSE IF left_ty = Unknown
        THEN [store |-> setitem(store, left, Ref(right)), status |-> "ok"]
        ELSE IF right_ty = Unknown
        THEN [store |-> setitem(store, right, Ref(left)), status |-> "ok"]
        ELSE IF isinstance(left_ty, "Ref")
        THEN unify(store, left, left_ty.target, depth - 1)
        ELSE IF isinstance(right_ty, "Ref")
        THEN unify(store, right, right_ty.target, depth - 1)
        ELSE IF isinstance(left_ty, "List") /\ isinstance(right_ty, "List")
        THEN unify(store, left_ty.kind, right_ty.kind, depth - 1)
        ELSE IF isinstance(left_ty, "Callable") /\ isinstance(right_ty, "Callable")
        THEN LET first == unify(store, left_ty.parameters, right_ty.parameters,
                                depth - 1)
             IN  IF first.status # "ok" THEN first
                 ELSE unify(first.store, left_ty.output, right_ty.output, depth - 1)
        ELSE [store |-> store, status |-> "TypeCheckError"]

(***************************************************************************)
(* InferenceEngine.reconstruct and the descriptors' reconstruct methods.   *)
(* The text is kept as the sequence of its pieces.                          *)
(***************************************************************************)
RECURSIVE reconstruct(_, _, _)
reconstruct(store, type_id, depth) ==
    LET ty == getitem(store, type_id)
    IN  IF depth = 0
        THEN [status |-> "RecursionError", text |-> <<>>]
        ELSE IF isinstance(ty, "Primitive")
        THEN [status |-> "ok", text |-> <<ty.name>>]
        ELSE IF isinstance(ty, "Ref")
        THEN reconstruct(store, ty.target, depth - 1)
        ELSE IF isinstance(ty, "List")
        THEN LET inner == reconstruct(store, ty.kind, depth - 1)
             IN  IF inner.status # "ok" THEN inner
                 ELSE [status |-> "ok", text |-> <<"List[">> \o inner.text \o <<"]">>]
        ELSE LET ps == reconstruct(store, ty.parameters, depth - 1)
                 out == reconstruct(store, ty.output, depth - 1)
             IN  IF ps.status # "ok" THEN ps
                 ELSE IF out.status # "ok" THEN out
                 ELSE [status |-> "ok",
                       text |-> <<"Callable[">> \o ps.text \o <<", ">>
                                \o out.text \o <<"]">>]

(***************************************************************************)
(* The type store as a state machine: a CompilationUnit's type_ctx after   *)
(* construction, and the calls made on it.                                 *)
(***************************************************************************)
NoCall == [op |-> "none", thing |-> Unknown, left |-> 0, right |-> 0,
           result |-> None, status |-> "ok",
           left_ty |-> Unknown, right_ty |-> Unknown]

\* the descriptors a caller can build from ids it holds
Descriptors(store) ==
    {Primitive(k) : k \in PrimitiveKinds}
    \cup {List(k) : k \in TypeIds(store)}
    \cup {Callable(p, o) : p \in TypeIds(store), o \in TypeIds(store)}

\* CompilationUnit.__post_init__: Unknown is slotted first
post_init == insert(<<>>, Unknown)

StoreInit ==
    /\ mapping = post_init.store
    /\ last = NoCall

Insert(thing) ==
    /\ Len(mapping) < MaxStore
    /\ LET r == insert(mapping, thing)
       IN  /\ mapping' = r.store
           /\ last' = [NoCall EXCEPT !.op = "insert", !.thing = thing,
                                     !.result = r.id]
    /\ UNCHANGED <<fluidVars, mir, drv, rev>>

GetIdOrInsert(thing) ==
    LET r == get_id_or_insert(mapping, thing)
    IN  /\ Len(r.store) <= MaxStore
        /\ mapping' = r.store
        /\ last' = [NoCall EXCEPT !.op = "get_id_or_insert", !.thing = thing,
                                  !.result = r.id]
        /\ UNCHANGED <<fluidVars, mir, drv, rev>>

Unify(left, right) ==
    LET r == unify(mapping, left, right, RecursionLimit)
    IN  /\ mapping' = r.store
        /\ last' = [NoCall EXCEPT !.op = "unify", !.left = left, !.right = right,
                                  !.status = r.status,
                                  !.left_ty = getitem(mapping, left),
                                  !.right_ty = getitem(mapping, right)]
        /\ UNCHANGED <<fluidVars, mir, drv, rev>>

StoreNext ==
    \/ \E thing \in Descriptors(mapping) : Insert(thing)
    \/ \E thing \in Descriptors(mapping) : GetIdOrInsert(thing)
    \/ \E left \in TypeIds(mapping), right \in TypeIds(mapping) : Unify(left, right)

(***************************************************************************)
(* Properties of the type store.                                           *)
(***************************************************************************)
ok(r) == r.status = "ok"

\* following Ref targets from type_id reaches a non-Ref entry within n steps
RECURSIVE RefChainEnds(_, _, _)
RefChainEnds(store, type_id, n) ==
    LET ty == getitem(store, type_id)
    IN  IF ~isinstance(ty, "Ref") THEN TRUE
        ELSE IF n = 0 THEN FALSE
        ELSE RefChainEnds(store, ty.target, n - 1)

\* C1: two consecutive calls get_id_or_insert(info) on the same store return
\* the same TypeId, the second call appends no entry, and the entry stored
\* at that id equals info (for every info, Primitive.Unknown included).
C1_GetIdOrInsertTwice ==
    [][(/\ last.op = "get_id_or_insert"
        /\ last'.op = "get_id_or_insert"
        /\ last'.thing = last.thing)
       => (/\ last'.result = last.result
           /\ Len(mapping') = Len(mapping)
           /\ getitem(mapping', last'.result) = last.thing)]_storeVars

\* C2: starting from a store without Ref entries, after any sequence of
\* unify calls every Ref chain ends in a non-Ref entry: there is no Ref
\* cycle and no entry that is a Ref to itself.
C2_RefChainsTerminate ==
    \A type_id \in TypeIds(mapping) :
        RefChainEnds(mapping, type_id, Len(mapping))

\* C3: in every reachable state of the type store the entry at index 0 is
\* Primitive.Unknown.
C3_UnknownAtZero == getitem(mapping, 0) = Unknown

\* C4: for an id u whose entry is Unknown and any id t, after unify(u, t)
\* or unify(t, u) returns, reconstruct(u) terminates and yields the text
\* reconstruct(t) yields.
C4_UnknownTakesTextOfOther ==
    (last.op = "unify" /\ last.status = "ok") =>
        /\ last.left_ty = Unknown =>
              LET u == reconstruct(mapping, last.left, RecursionLimit)
                  t == reconstruct(mapping, last.right, RecursionLimit)
              IN  ok(u) /\ u.text = t.text
        /\ last.right_ty = Unknown =>
              LET u == reconstruct(mapping, last.right, RecursionLimit)
                  t == reconstruct(mapping, last.left, RecursionLimit)
              IN  ok(u) /\ u.text = t.text

\* C5: for ids a and b whose entries are the same Primitive kind (the same
\* id or distinct ids), unify(a, b) completes without TypeCheckError and
\* leaves reconstruct(a) and reconstruct(b) terminating and equal.
C5_EqualPrimitivesUnify ==
    (/\ last.op = "unify"
     /\ isinstance(last.left_ty, "Primitive")
     /\ last.right_ty = last.left_ty)
    => LET a == reconstruct(mapping, last.left, RecursionLimit)
           b == reconstruct(mapping, last.right, RecursionLimit)
       IN  /\ last.status # "TypeCheckError"
           /\ ok(a) /\ ok(b) /\ a.text = b.text

(***************************************************************************)
(* mir/instr.py and mir/ebb.py: instructions, blocks, the FluidBlock.      *)
(***************************************************************************)
\* BlockInstr.ret: the _NULL default of _emit, None, an SSA slot, a variable
NULL == [kind |-> "_NULL"]

NoRet == [kind |-> "None"]

SSA(slot) == [kind |-> "ssa", slot |-> slot]

Var(ident) == [kind |-> "var", ident |-> ident]

BlockInstr(op, args, ret) == [op |-> op, args |-> args, ret |-> ret]

BasicBlock(body, parameters) == [body |-> body, parameters |-> parameters]

EmptyDict == <<>>

\* the inputs the calls are given
FbTypes == {1, 2}
Idents == {"x"}
Modes == {"eq"}

\* FluidBlock(...): the dataclass fields and their defaults
FluidBlock(parameters, returns, ssa_value_types) ==
    [parameters |-> parameters, returns |-> returns,
     variables |-> EmptyDict, blocks |-> EmptyDict,
     ssa_value_types |-> ssa_value_types,
     cursor |-> None, last_ssa_value |-> -1]

RECURSIVE CountInstrs(_, _)
CountInstrs(h, n) ==
    IF n = 0 THEN 0 ELSE Len(h[n].body) + CountInstrs(h, n - 1)

\* FluidBlock._emit: the slot is taken before the cursor's block is looked up
emit(f, h, op, args, ret) ==
    LET f1 == IF ret = NULL
              THEN [f EXCEPT !.last_ssa_value = f.last_ssa_value + 1]
              ELSE f
        slot == IF ret = NULL THEN SSA(f1.last_ssa_value) ELSE ret
        instr == BlockInstr(op, args, slot)
    IN  IF f1.cursor \notin DOMAIN f1.blocks
        THEN [fb |-> f1, heap |-> h, status |-> "KeyError", result |-> NoRet]
        ELSE [fb |-> f1,
              heap |-> [h EXCEPT ![f1.blocks[f1.cursor]].body = Append(@, instr)],
              status |-> "ok", result |-> slot]

\* FluidBlock._typecheck
typecheck(f, value, expected) ==
    IF value \notin DOMAIN f.ssa_value_types THEN "KeyError"
    ELSE IF f.ssa_value_types[value] # expected THEN "TypeError"
    ELSE "ok"

raise(f, h, status) == [fb |-> f, heap |-> h, status |-> status, result |-> NoRet]

\* the methods that return nothing drop _emit's slot
returns_None(r) == [r EXCEPT !.result = NoRet]

\* FluidBlock.finalize: copies of the list and of the two dicts
finalize(f) ==
    IF f.returns = None
    THEN [status |-> "AssertionError"]
    ELSE [status |-> "ok", parameters |-> f.parameters, return_value |-> f.returns,
          variables |-> f.variables, blocks |-> f.blocks]

\* what an Ebb reads as: its blocks are the BasicBlock objects themselves
EbbView(e, h) ==
    [parameters |-> e.parameters, return_value |-> e.return_value,
     variables |-> e.variables,
     blocks |-> [b \in DOMAIN e.blocks |-> h[e.blocks[b]]]]

\* FluidBlock.switch_to_block
switch_to_block(f, block_id) == [f EXCEPT !.cursor = block_id]

\* FluidBlock.create_block
create_block(f, h) ==
    LET block_id == IF DOMAIN f.blocks = {} THEN 0
                    ELSE (CHOOSE b \in DOMAIN f.blocks :
                              \A c \in DOMAIN f.blocks : c <= b) + 1
        block == BasicBlock(<<>>, EmptyDict)
    IN  [fb |-> [f EXCEPT !.blocks = (block_id :> (Len(h) + 1)) @@ f.blocks],
         heap |-> Append(h, block), id |-> block_id]

\* the instruction emitting methods
int_const(f, h, value) == emit(f, h, "IntConst", <<value, 64, TRUE>>, NULL)

bool_const(f, h, value) == emit(f, h, "BoolConst", <<value>>, NULL)

cast_bool_to_int(f, h, ty, value) == emit(f, h, "BInt", <<ty, value>>, NULL)

int_add(f, h, left, right) == emit(f, h, "IAdd", <<left, right>>, NULL)

int_sub(f, h, left, right) == emit(f, h, "IAdd", <<left, right>>, NULL)

icmp(f, h, op, lhs, rhs) == emit(f, h, "IntCmp", <<op, lhs, rhs>>, NULL)

use(f, h, ident) == emit(f, h, "UseVar", <<ident>>, NULL)

assign(f, h, ident, value, ty) ==
    LET checked == typecheck(f, value, ty)
    IN  IF checked # "ok" THEN raise(f, h, checked)
        ELSE emit([f EXCEPT !.variables = (ident :> ty) @@ f.variables], h,
                  "Assign", <<value>>, Var(ident))

nop(f, h) == returns_None(emit(f, h, "NoOp", <<>>, NULL))

jump(f, h, target) == returns_None(emit(f, h, "Jump", <<target>>, NoRet))

branch_icmp(f, h, mode, left, right, target) ==
    emit(f, h, "BranchIntCmp", <<mode, left, right, target>>, NULL)

return_(f, h, value) ==
    LET checked == typecheck(f, value, f.returns)
    IN  IF checked # "ok" THEN raise(f, h, checked)
        ELSE emit(f, h, "Return", <<value>>, NoRet)

(***************************************************************************)
(* The FluidBlock as a state machine: one action per method.               *)
(***************************************************************************)
NoFbCall == [op |-> "none", status |-> "ok", result |-> NoRet, value |-> None]

NoEbb == [status |-> "none"]

\* the FluidBlocks constructed: the defaults (no return type, no types
\* recorded), a return type alone, and a return type with a side table
\* that gives slot 0 the return type and slot 1 another type
Constructions ==
    {FluidBlock(<<>>, None, EmptyDict),
     FluidBlock(<<1>>, 1, EmptyDict),
     FluidBlock(<<1>>, 1, (0 :> 1) @@ (1 :> 2))}

FluidInit ==
    /\ fb \in Constructions
    /\ heap = <<>>
    /\ contexts = <<>>
    /\ ebb = NoEbb
    /\ finalized = NoEbb
    /\ handed = <<>>
    /\ calls = 0
    /\ fb_last = NoFbCall

\* the slots allocated so far, and the block ids a caller may name
Slots == 0 .. fb.last_ssa_value

\* the operand given to the computing instructions: the latest slot
Latest == {slot \in Slots : slot = fb.last_ssa_value}

BlockIds == 0 .. MaxBlocks - 1

\* the block a jump or a branch is given: the one created last
Targets == {b \in DOMAIN fb.blocks : \A c \in DOMAIN fb.blocks : c <= b}

\* one more call is made on the FluidBlock
Called ==
    /\ calls < MaxCalls
    /\ calls' = calls + 1
    /\ UNCHANGED <<storeVars, mir, drv, rev>>

\* a call that emits nothing
Plain ==
    /\ Called
    /\ fb_last' = NoFbCall

\* an emitting call: _emit's effect on the FluidBlock, the heap and the slots
Emitted(op, value, r) ==
    /\ Called
    /\ CountInstrs(r.heap, Len(r.heap)) <= MaxInstrs
    /\ r.fb.last_ssa_value < MaxSSA
    /\ fb' = r.fb
    /\ heap' = r.heap
    /\ handed' = IF r.status = "ok" /\ r.fb.last_ssa_value # fb.last_ssa_value
                 THEN Append(handed, r.fb.last_ssa_value)
                 ELSE handed
    /\ fb_last' = [op |-> op, status |-> r.status, result |-> r.result,
                   value |-> value]
    /\ UNCHANGED <<contexts, ebb, finalized>>

Do_create_block ==
    /\ Plain
    /\ Len(heap) < MaxBlocks
    /\ LET r == create_block(fb, heap)
       IN  fb' = r.fb /\ heap' = r.heap
    /\ UNCHANGED <<contexts, ebb, finalized, handed>>

Do_switch_to_block(block_id) ==
    /\ Plain
    /\ fb' = switch_to_block(fb, block_id)
    /\ UNCHANGED <<heap, contexts, ebb, finalized, handed>>

\* with_block, up to its yield
Do_with_block_enter ==
    /\ Plain
    /\ Len(heap) < MaxBlocks
    /\ Len(contexts) < MaxNest
    /\ LET previous_block_id == fb.cursor
           r == create_block(fb, heap)
       IN  /\ contexts' = Append(contexts, previous_block_id)
           /\ fb' = switch_to_block(r.fb, r.id)
           /\ heap' = r.heap
    /\ UNCHANGED <<ebb, finalized, handed>>

\* with_block, after its yield: the innermost open context ends
Do_with_block_exit ==
    /\ Plain
    /\ contexts # <<>>
    /\ LET previous_block_id == contexts[Len(contexts)]
       IN  fb' = switch_to_block(fb, previous_block_id)
    /\ contexts' = SubSeq(contexts, 1, Len(contexts) - 1)
    /\ UNCHANGED <<heap, ebb, finalized, handed>>

Do_int_const == Emitted("int_const", None, int_const(fb, heap, 1))

Do_bool_const == Emitted("bool_const", None, bool_const(fb, heap, TRUE))

Do_cast_bool_to_int(ty, value) ==
    Emitted("cast_bool_to_int", value, cast_bool_to_int(fb, heap, ty, value))

Do_int_add(left, right) == Emitted("int_add", left, int_add(fb, heap, left, right))

Do_int_sub(left, right) == Emitted("int_sub", left, int_sub(fb, heap, left, right))

Do_icmp(op, lhs, rhs) == Emitted("icmp", lhs, icmp(fb, heap, op, lhs, rhs))

Do_use(ident) == Emitted("use", None, use(fb, heap, ident))

Do_assign(ident, value, ty) == Emitted("assign", value, assign(fb, heap, ident, value, ty))

Do_nop == Emitted("nop", None, nop(fb, heap))

Do_jump(target) == Emitted("jump", target, jump(fb, heap, target))

Do_branch_icmp(mode, left, right, target) ==
    Emitted("branch_icmp", left, branch_icmp(fb, heap, mode, left, right, target))

Do_return_(value) == Emitted("return_", value, return_(fb, heap, value))

\* finalize() is followed once per FluidBlock
Do_finalize ==
    LET e == finalize(fb)
    IN  /\ Plain
        /\ ebb = NoEbb
        /\ IF e.status = "ok"
           THEN ebb' = e /\ finalized' = EbbView(e, heap)
           ELSE ebb' = e /\ finalized' = NoEbb
        /\ UNCHANGED <<fb, heap, contexts, handed>>

FluidNext ==
    \/ Do_create_block
    \/ \E block_id \in BlockIds : Do_switch_to_block(block_id)
    \/ Do_with_block_enter
    \/ Do_with_block_exit
    \/ Do_int_const
    \/ Do_bool_const
    \/ \E ty \in {1}, value \in Latest : Do_cast_bool_to_int(ty, value)
    \/ \E left \in Latest, right \in Latest : Do_int_add(left, right)
    \/ \E left \in Latest, right \in Latest : Do_int_sub(left, right)
    \/ \E op \in Modes, lhs \in Latest, rhs \in Latest : Do_icmp(op, lhs, rhs)
    \/ \E ident \in Idents : Do_use(ident)
    \/ \E ident \in Idents, value \in Slots, ty \in FbTypes : Do_assign(ident, value, ty)
    \/ Do_nop
    \/ \E target \in Targets : Do_jump(target)
    \/ \E mode \in Modes, left \in Latest, right \in Latest, target \in Targets :
           Do_branch_icmp(mode, left, right, target)
    \/ \E value \in Slots : Do_return_(value)
    \/ Do_finalize


(***************************************************************************)
(* Properties of the FluidBlock.                                           *)
(***************************************************************************)
\* the instructions of all blocks, each with its place
Instrs(h) == UNION {{<<a, i>> : i \in DOMAIN h[a].body} : a \in DOMAIN h}

InstrAt(h, at) == h[at[1]].body[at[2]]

\* the slots an emitting method has returned to its caller
ReturnedSlots(h) ==
    {InstrAt(h, at).ret.slot :
        at \in {x \in Instrs(h) : /\ InstrAt(h, x).ret.kind = "ssa"
                                  /\ InstrAt(h, x).op # "NoOp"}}

HasCursor(f) == f.cursor \in DOMAIN f.blocks

\* C7: for an SSA value v an emitting operation returned, return_(v) appends
\* Return(v) to the current block when the type recorded for v equals the
\* declared return TypeId, and otherwise fails with TypeError and leaves every
\* block body unchanged; it never fails for another reason, such as v having
\* no recorded type.
C7_ReturnTypechecks ==
    [][(/\ fb_last'.op = "return_"
        /\ fb_last'.value \in ReturnedSlots(heap)
        /\ fb.returns # None
        /\ HasCursor(fb))
       => LET v == fb_last'.value
          IN  IF v \in DOMAIN fb.ssa_value_types /\ fb.ssa_value_types[v] = fb.returns
              THEN /\ fb_last'.status = "ok"
                   /\ heap' = [heap EXCEPT ![fb.blocks[fb.cursor]].body =
                                   Append(@, BlockInstr("Return", <<v>>, NoRet))]
              ELSE /\ fb_last'.status = "TypeError"
                   /\ heap' = heap]_vars

\* C8: once finalize() has returned an Ebb, no later operation on the
\* FluidBlock changes that Ebb's parameters, return_value, variables, set of
\* blocks or the body of any of its blocks.
C8_EbbImmutable ==
    ebb.status = "ok" => EbbView(ebb, heap) = finalized

\* C9: the SSA slots handed out are exactly 0, 1, ..., k-1 in increasing
\* order of emission, and no SSA slot is the ret of more than one
\* instruction across all blocks.
C9_SlotsDenseAndUnique ==
    /\ \A i \in DOMAIN handed : handed[i] = i - 1
    /\ \A x \in Instrs(heap), y \in Instrs(heap) :
           (/\ x # y
            /\ InstrAt(heap, x).ret.kind = "ssa"
            /\ InstrAt(heap, y).ret.kind = "ssa")
           => InstrAt(heap, x).ret.slot # InstrAt(heap, y).ret.slot

(***************************************************************************)
(* driver.py: the primitives a CompilationUnit seeds.                      *)
(***************************************************************************)
\* CompilationUnit.get_primitives: I64, I32, Nothing and Bool, in this order
get_primitives(store) ==
    LET i64 == get_id_or_insert(store, Primitive("I64"))
        i32 == get_id_or_insert(i64.store, Primitive("I32"))
        none == get_id_or_insert(i32.store, Primitive("Nothing"))
        bool == get_id_or_insert(none.store, Primitive("Bool"))
    IN  [store |-> bool.store, int |-> i64.id, i64 |-> i64.id, i32 |-> i32.id,
         none |-> none.id, bool |-> bool.id]

\* the type store of a unit when lowering starts
Seeded == get_primitives(post_init.store)

(***************************************************************************)
(* mir/builder.py: MirBuilder.  The builder drives a block builder through *)
(* self.ebb; its calls are those of FluidBlock (use_var is use, bint is    *)
(* cast_bool_to_int, br_icmp is branch_icmp, jump_to_block is jump).       *)
(***************************************************************************)
\* the AST nodes lowered (ast.Constant, ast.Name, ast.Return, ...)
ast_Constant(value) == [node |-> "Constant", value |-> value]

ast_Name(id) == [node |-> "Name", id |-> id]

ast_Return(value) == [node |-> "Return", value |-> value]

ast_Pass == [node |-> "Pass"]

ast_AnnAssign(target, value) ==
    [node |-> "AnnAssign", target |-> target, value |-> value]

ast_If(test, body, orelse) ==
    [node |-> "If", test |-> test, body |-> body, orelse |-> orelse]

\* the builder's state while it lowers; a node is keyed by its place in the
\* tree, locals are the local variables of the visit method running
MirBuilder(f, h, store, ssa) ==
    [fb |-> f, heap |-> h, type_ctx |-> store, nodes_to_ssa |-> ssa,
     locals |-> EmptyDict, status |-> "ok"]

\* statements run one after the other: an exception ends the visit
then(b, rest) == IF b.status # "ok" THEN b ELSE rest

\* the outcome r of a FluidBlock call, taken into the builder's state
after(b, r) == [b EXCEPT !.fb = r.fb, !.heap = r.heap, !.status = r.status]

\* self.nodes_to_ssa[node] = <the slot r returned>
record(b, path, r) ==
    IF r.status # "ok" THEN after(b, r)
    ELSE [after(b, r) EXCEPT !.nodes_to_ssa = (path :> r.result.slot) @@ @]

\* name = <the slot r returned>
local(b, name, r) ==
    IF r.status # "ok" THEN after(b, r)
    ELSE [after(b, r) EXCEPT !.locals = (name :> r.result.slot) @@ @]

failed(b, status) == [b EXCEPT !.status = status]

\* using_clean_block and using_some_block: the block the builder emits into
\* is opened when there is none
using_clean_block(b) ==
    IF b.fb.cursor # None THEN b
    ELSE LET r == create_block(b.fb, b.heap)
         IN  [b EXCEPT !.fb = switch_to_block(r.fb, r.id), !.heap = r.heap]

using_some_block(b) == using_clean_block(b)

\* MirBuilder.visit_Constant
visit_Constant(b, const, path) ==
    record(b, path, int_const(b.fb, b.heap, const.value))

\* MirBuilder.visit_Name: inert unless a _visit_name is swapped in
visit_Name(b, name, path, names_as_uses) ==
    IF names_as_uses THEN record(b, path, use(b.fb, b.heap, name.id))
    ELSE b

\* generic_visit on an expression child
visit_expr(b, node, path, names_as_uses) ==
    IF node.node = "Constant" THEN visit_Constant(b, node, path)
    ELSE visit_Name(b, node, path, names_as_uses)

\* self.nodes_to_ssa[node], for the call that `emitting` makes with it
lookup(b, path, emitting) ==
    then(b, IF path \notin DOMAIN b.nodes_to_ssa THEN failed(b, "KeyError")
            ELSE emitting)

\* MirBuilder.visit_Return: self.ebb.return_(self.nodes_to_ssa[ret.value])
return_value(b, child) ==
    lookup(b, child, after(b, return_(b.fb, b.heap, b.nodes_to_ssa[child])))

visit_Return(b, ret, path) ==
    return_value(visit_expr(b, ret.value, path \o <<"value">>, TRUE),
                 path \o <<"value">>)

\* MirBuilder.visit_Pass
nop_in(b) == after(b, nop(b.fb, b.heap))

visit_Pass(b) == nop_in(using_clean_block(b))

\* MirBuilder.visit_AnnAssign: the value's type is revealed as I64 (an int
\* constant) through the unit's type store
assign_value(b, target, child, ty) ==
    lookup(b, child,
           after([b EXCEPT !.type_ctx = ty.store],
                 assign(b.fb, b.heap, target, b.nodes_to_ssa[child], ty.id)))

reveal_I64(b, target, child) ==
    assign_value(b, target, child, get_id_or_insert(b.type_ctx, Primitive("I64")))

visit_AnnAssign(b, assign_, path) ==
    reveal_I64(visit_expr(using_some_block(b), assign_.value,
                          path \o <<"value">>, FALSE),
               assign_.target, path \o <<"value">>)

\* a statement that holds no statements itself
visit_simple(b, node, path) ==
    IF node.node = "Return" THEN visit_Return(b, node, path)
    ELSE IF node.node = "Pass" THEN visit_Pass(b)
    ELSE visit_AnnAssign(b, node, path)

\* with_block up to its yield: `with self.ebb.with_block() as name`
enter_block(b, name, r) ==
    [b EXCEPT !.fb = switch_to_block(r.fb, r.id), !.heap = r.heap,
              !.locals = (name :> r.id) @@ ("previous_block_id" :> b.fb.cursor) @@ @]

\* with_block after its yield; an exception in the body skips it
exit_block(b) ==
    then(b, [b EXCEPT !.fb = switch_to_block(b.fb, b.locals.previous_block_id)])

in_new_block(b, node, path, name) ==
    exit_block(visit_simple(enter_block(b, name, create_block(b.fb, b.heap)),
                            node, path))

\* `for node in if_.orelse`: each in a block of its own, the last one is tail
RECURSIVE visit_orelse(_, _, _, _)
visit_orelse(b, orelse, i, path) ==
    IF i > Len(orelse) \/ b.status # "ok" THEN b
    ELSE visit_orelse(in_new_block(b, orelse[i], path \o <<"orelse", i>>, "tail"),
                      orelse, i + 1, path)

\* visit_If: expr_result = self.ebb.bint(i64, self.nodes_to_ssa[if_.test])
bint_test(b, test, i64) ==
    then(b, local([b EXCEPT !.type_ctx = i64.store], "expr_result",
                  cast_bool_to_int(b.fb, b.heap, i64.id, b.nodes_to_ssa[test])))

if_test(b, test) ==
    bint_test(b, test, get_id_or_insert(b.type_ctx, Primitive("I64")))

\* visit_If: one = self.ebb.int_const(1)
if_one(b) == then(b, local(b, "one", int_const(b.fb, b.heap, 1)))

\* visit_If: self.ebb.br_icmp("eq", expr_result, one, head)
if_br_icmp(b) ==
    then(b, after(b, branch_icmp(b.fb, b.heap, "eq", b.locals.expr_result,
                                 b.locals.one, b.locals.head)))

\* visit_If: self.ebb.jump_to_block(tail); tail is bound by the orelse loop
if_jump(b) ==
    then(b, IF "tail" \notin DOMAIN b.locals THEN failed(b, "UnboundLocalError")
            ELSE after(b, jump(b.fb, b.heap, b.locals.tail)))

\* MirBuilder.visit_If: only if_.body[0] is lowered
visit_If(b, if_, path) ==
    if_jump(if_br_icmp(if_one(
        visit_orelse(
            in_new_block(
                if_test(visit_Name(b, if_.test, path \o <<"test">>, TRUE),
                        path \o <<"test">>),
                if_.body[1], path \o <<"body", 1>>, "head"),
            if_.orelse, 1, path))))

\* NodeVisitor.visit on a statement of a function body
visit(b, node, path) ==
    IF node.node = "If" THEN visit_If(b, node, path)
    ELSE visit_simple(b, node, path)

(***************************************************************************)
(* Lowering one function: MirBuilder.compile_function, statement by        *)
(* statement.                                                              *)
(***************************************************************************)
Exprs == {ast_Constant(1), ast_Name("x")}

SimpleStmts ==
    {ast_Pass} \cup {ast_Return(e) : e \in Exprs}
    \cup {ast_AnnAssign("x", e) : e \in Exprs}

ArmStmts == {ast_Pass, ast_Return(ast_Constant(1))}

SeqsUpTo(S, lo, hi) == UNION {[1 .. n -> S] : n \in lo .. hi}

IfStmts ==
    {ast_If(ast_Name("x"), body, orelse) :
        body \in SeqsUpTo(ArmStmts, 1, 1), orelse \in SeqsUpTo(ArmStmts, 0, MaxBody)}

Bodies == SeqsUpTo(SimpleStmts \cup IfStmts, 1, MaxBody)

\* the side tables the block builder is constructed with: nothing recorded,
\* or every slot recorded as I64
LoweringTables == {EmptyDict, [slot \in 0 .. 3 * MaxBody + 3 |-> Seeded.i64]}

NotLowering == [status |-> "idle"]

NotCompiling == [pc |-> "idle"]

NotRevealing == [call |-> [op |-> "none"]]

\* compile_function up to self.visit(func.node): the function's parameter
\* and return types are those of its Callable (I64 here)
LowerInit ==
    /\ mapping = Seeded.store
    /\ last = NoCall
    /\ \E statements \in Bodies, types \in LoweringTables :
        /\ fb = FluidBlock(<<Seeded.i64>>, Seeded.i64, types)
        /\ mir = [status |-> "entered", body |-> statements, next |-> 1,
                  nodes_to_ssa |-> EmptyDict]
    /\ heap = <<>> /\ contexts = <<>> /\ ebb = NoEbb /\ finalized = NoEbb
    /\ handed = <<>> /\ calls = 0 /\ fb_last = NoFbCall
    /\ drv = NotCompiling
    /\ rev = NotRevealing

\* the builder's state taken back into the variables
Lowered(b, visited) ==
    /\ fb' = b.fb
    /\ heap' = b.heap
    /\ mapping' = b.type_ctx
    /\ mir' = [mir EXCEPT !.status = IF b.status = "ok" THEN "lowering" ELSE b.status,
                          !.next = @ + visited,
                          !.nodes_to_ssa = b.nodes_to_ssa]
    /\ UNCHANGED <<last, contexts, ebb, finalized, handed, calls, fb_last, drv, rev>>

Builder == MirBuilder(fb, heap, mapping, mir.nodes_to_ssa)

\* compile_function: self.ebb.using_clean_block()
CompileFunction ==
    /\ mir.status = "entered"
    /\ Lowered(using_clean_block(Builder), 0)

\* self.visit(func.node): the next statement of the function's body
VisitStatement(kind) ==
    /\ mir.status = "lowering"
    /\ mir.next <= Len(mir.body)
    /\ mir.body[mir.next].node = kind
    /\ Lowered(visit(Builder, mir.body[mir.next], <<mir.next>>), 1)

StatementKinds == {"Return", "Pass", "AnnAssign", "If"}

\* compile_function: return self.ebb
ReturnEbb ==
    /\ mir.status = "lowering"
    /\ mir.next > Len(mir.body)
    /\ mir' = [mir EXCEPT !.status = "returned"]
    /\ UNCHANGED <<storeVars, fluidVars, drv, rev>>

LowerNext ==
    \/ CompileFunction
    \/ \E kind \in StatementKinds : VisitStatement(kind)
    \/ ReturnEbb

\* the terminator instructions
Terminators == {"Jump", "BranchIntCmp", "Return"}

TerminatorsOf(body) == {i \in DOMAIN body : body[i].op \in Terminators}

\* C6: in every Ebb produced by lowering a function, every basic block holds
\* exactly one terminator instruction (Jump, BranchIntCmp or Return) and that
\* instruction is the last one of the block's body.
C6_OneTerminatorLast ==
    mir.status = "returned" =>
        \A b \in DOMAIN fb.blocks :
            LET body == heap[fb.blocks[b]].body
            IN  TerminatorsOf(body) = {Len(body)} /\ Len(body) > 0

\* the body of block id
BodyOf(id) == heap[fb.blocks[id]].body

\* the function being lowered starts with an If that has no orelse and goes on
IfThenMore ==
    /\ mir.status # "idle"
    /\ Len(mir.body) = 2
    /\ mir.body[1].node = "If"
    /\ mir.body[1].orelse = <<>>

\* the entry block ends with BranchIntCmp("eq", test, 1, head) then
\* Jump(tail), head holds the If body and tail the statements after the If
IfLayout(entry, head) ==
    /\ {entry, head} \subseteq DOMAIN fb.blocks
    /\ Len(BodyOf(entry)) >= 2
    /\ LET n == Len(BodyOf(entry))
           br == BodyOf(entry)[n - 1]
           jmp == BodyOf(entry)[n]
       IN  /\ br.op = "BranchIntCmp" /\ br.args[1] = "eq" /\ br.args[4] = head
           /\ jmp.op = "Jump"
           /\ jmp.args[1] \in DOMAIN fb.blocks \ {entry, head}
           /\ Len(BodyOf(head)) >= 1
           /\ Len(BodyOf(jmp.args[1])) >= 1

\* C14: lowering a function whose body is an If with a Name test, a
\* one-statement body and an empty orelse, followed by further statements,
\* completes and yields an entry block ending with BranchIntCmp("eq", test,
\* 1, head) then Jump(tail), a block head holding the lowered If body and a
\* block tail holding the lowered statements that follow the If.
C14_IfWithoutOrelse ==
    (IfThenMore /\ mir.status \notin {"entered", "lowering"}) =>
        (mir.status = "returned" /\ IfLayout(0, 1))

(***************************************************************************)
(* driver.py: compile_source, phase by phase.                              *)
(***************************************************************************)
MaxFunctions == 2       \* most function definitions in one source module

FunctionNames == {"main", "f"}

ModuleNames == {"__main__", "m"}

\* the kinds of source_input: a string, a file-like object, anything else
SourceInputs == {"str", "IOBase", "other"}

\* the constructs the scope walker rejects
RejectedConstructs == {"Assign", "ClassDef", "AugAssign"}

FunctionBodies ==
    {<<ast_Pass>>, <<ast_Return(ast_Constant(1))>>,
     <<ast_AnnAssign("x", ast_Name("x"))>>}

FunctionDef(name, body) == [name |-> name, body |-> body]

\* a parsed module: its function definitions in order, its rejected constructs
Sources ==
    [functions : SeqsUpTo({FunctionDef(n, b) : n \in FunctionNames, b \in FunctionBodies},
                          0, MaxFunctions),
     rejected : SUBSET RejectedConstructs]

\* NodeVisitor.generic_visit over the statements of a function body
RECURSIVE visit_body(_, _, _)
visit_body(b, body, i) ==
    IF i > Len(body) \/ b.status # "ok" THEN b
    ELSE visit_body(visit(b, body[i], <<i>>), body, i + 1)

\* MirBuilder.compile_function
lower_function(store, callable, types, body) ==
    visit_body(using_clean_block(
                   MirBuilder(FluidBlock(<<callable.parameters>>, callable.output, types),
                              <<>>, store, EmptyDict)),
               body, 1)

compile_function(store, type_id, types, func) ==
    lower_function(store, getitem(store, type_id), types, func.body)

\* what compile_function returns: self.ebb, with the blocks it refers to
ReturnedEbb(b) == [b.fb EXCEPT !.blocks = [id \in DOMAIN @ |-> b.heap[@[id]]]]

NoUnit == [modules |-> EmptyDict]

DriverInit ==
    /\ mapping = <<>>
    /\ last = NoCall
    /\ fb = FluidBlock(<<>>, None, EmptyDict)
    /\ heap = <<>> /\ contexts = <<>> /\ ebb = NoEbb /\ finalized = NoEbb
    /\ handed = <<>> /\ calls = 0 /\ fb_last = NoFbCall
    /\ mir = NotLowering
    /\ rev = NotRevealing
    /\ \E source_input \in SourceInputs, source \in Sources,
          module_name \in ModuleNames, debug \in BOOLEAN, types \in LoweringTables :
        drv = [pc |-> "parse", source_input |-> source_input, source |-> source,
               module_name |-> module_name, debug |-> debug, types |-> types,
               unit |-> NoUnit, type_ids |-> <<>>, output |-> EmptyDict,
               lowered |-> 0, phases |-> <<>>, issues |-> {},
               outcome |-> "running"]

Phase(name) == Append(drv.phases, name)

Raised(exception, name) ==
    [drv EXCEPT !.pc = "done", !.outcome = exception, !.phases = Phase(name)]

DriverFrame == UNCHANGED <<last, fluidVars, mir, rev>>

\* the isinstance checks on source_input and ast.parse
Parse ==
    /\ drv.pc = "parse"
    /\ drv' = IF drv.source_input = "other" THEN Raised("TypeError", "parse")
              ELSE [drv EXCEPT !.pc = "validate", !.phases = Phase("parse")]
    /\ UNCHANGED mapping
    /\ DriverFrame

\* root_item.validate(): Item is not part of the sources at hand.  Its scope
\* is built by ScopeWalker, which raises NotImplementedError at a rejected
\* construct; whether validate gets to collect the construct as an issue
\* first is open, so both are outcomes.
Validate ==
    /\ drv.pc = "validate"
    /\ \/ /\ drv.source.rejected = {}
          /\ drv' = [drv EXCEPT !.pc = "seed", !.phases = Phase("validate")]
       \/ /\ drv.source.rejected # {}
          /\ \/ drv' = [Raised("CompilationException", "validate")
                           EXCEPT !.issues = drv.source.rejected]
             \/ drv' = Raised("NotImplementedError", "validate")
    /\ UNCHANGED mapping
    /\ DriverFrame

\* unit = CompilationUnit(); unit.get_primitives();
\* unit.modules[module_name] = ModuleBuilder(unit, root_item)
Seed ==
    /\ drv.pc = "seed"
    /\ mapping' = get_primitives(post_init.store).store
    /\ drv' = [drv EXCEPT !.pc = "typecheck", !.phases = Phase("seed"),
                          !.unit = [modules |-> (drv.module_name :> [output |-> None])]]
    /\ DriverFrame

\* the types the checker gives the functions: one Callable each
RECURSIVE typecheck_functions(_, _, _)
typecheck_functions(store, functions, i) ==
    IF i > Len(functions) THEN [store |-> store, type_ids |-> <<>>]
    ELSE LET r == insert(store, Callable(Seeded.i64, Seeded.i64))
             rest == typecheck_functions(r.store, functions, i + 1)
         IN  [store |-> rest.store, type_ids |-> <<r.id>> \o rest.type_ids]

\* a compile_source that goes on to lower although the checker reported issues
Typecheck_IssuesIgnored ==
    /\ drv.pc = "typecheck"
    /\ LET r == typecheck_functions(mapping, drv.source.functions, 1)
       IN  /\ mapping' = r.store
           /\ \E issues \in {{}, {"TypeCheckError"}} :
                drv' = [drv EXCEPT !.pc = "lower", !.phases = Phase("typecheck"),
                                   !.type_ids = r.type_ids, !.issues = issues]
    /\ DriverFrame

\* monty.typechecker.typecheck(item=root_item, unit=unit): the checker is not
\* part of the sources at hand; it reports issues or types every function
Typecheck ==
    /\ drv.pc = "typecheck"
    /\ \/ /\ drv' = [Raised("CompilationException", "typecheck")
                        EXCEPT !.issues = {"TypeCheckError"}]
          /\ UNCHANGED mapping
       \/ LET r == typecheck_functions(mapping, drv.source.functions, 1)
          IN  /\ mapping' = r.store
              /\ drv' = [drv EXCEPT !.pc = "lower", !.phases = Phase("typecheck"),
                                    !.type_ids = r.type_ids]
    /\ DriverFrame

\* lower_into_mir: MirBuilder.compile_function for the next function item
LowerFunction ==
    /\ drv.pc = "lower"
    /\ drv.lowered < Len(drv.source.functions)
    /\ LET i == drv.lowered + 1
           func == drv.source.functions[i]
           b == compile_function(mapping, drv.type_ids[i], drv.types, func)
       IN  /\ mapping' = b.type_ctx
           /\ drv' = IF b.status # "ok" THEN Raised(b.status, "lower")
                     ELSE [drv EXCEPT !.lowered = i, !.phases = Phase("lower"),
                                      !.output = (func.name :> ReturnedEbb(b)) @@ @]
    /\ DriverFrame

\* builder.output = builder.lower_into_mir()
LowerModule ==
    /\ drv.pc = "lower"
    /\ drv.lowered = Len(drv.source.functions)
    /\ drv' = [drv EXCEPT !.pc = IF drv.debug THEN "debug" ELSE "return",
                          !.phases = Phase("lowered"),
                          !.unit.modules[drv.module_name].output = drv.output]
    /\ UNCHANGED mapping
    /\ DriverFrame

\* the `if __debug__:` block: prints unit.modules["__main__"].output["main"]
DebugPrint ==
    /\ drv.pc = "debug"
    /\ drv' = IF "__main__" \notin DOMAIN drv.unit.modules THEN Raised("KeyError", "debug")
              ELSE IF "main" \notin DOMAIN drv.unit.modules["__main__"].output
                   THEN Raised("KeyError", "debug")
              ELSE [drv EXCEPT !.pc = "return", !.phases = Phase("debug")]
    /\ UNCHANGED mapping
    /\ DriverFrame

\* return unit
ReturnUnit ==
    /\ drv.pc = "return"
    /\ drv' = [drv EXCEPT !.pc = "done", !.outcome = "returned",
                          !.phases = Phase("return")]
    /\ UNCHANGED mapping
    /\ DriverFrame

DriverNext ==
    \/ Parse
    \/ Validate
    \/ Seed
    \/ Typecheck
    \/ LowerFunction
    \/ LowerModule
    \/ DebugPrint
    \/ ReturnUnit

\* the phases a run went through
Went(name) == \E i \in DOMAIN drv.phases : drv.phases[i] = name

\* the function names of the source
NamesOf(source) == {source.functions[i].name : i \in DOMAIN source.functions}

\* the output a unit must hold: each name with the Ebb of its last definition
ExpectedOutput(output) ==
    /\ DOMAIN output = NamesOf(drv.source)
    /\ \A i \in DOMAIN drv.source.functions :
        LET func == drv.source.functions[i]
        IN  (\A j \in DOMAIN drv.source.functions :
                j > i => drv.source.functions[j].name # func.name)
            => output[func.name] =
                   ReturnedEbb(compile_function(mapping, drv.type_ids[i], drv.types, func))

\* C10: for every source that passes validation and typechecking and whose
\* functions all lower without error, for every module_name and every set of
\* function names, compile_source returns normally a CompilationUnit in which
\* modules[module_name] holds the map from each function name to its Ebb.
C10_SuccessReturnsUnit ==
    (drv.pc = "done" /\ Went("validate") /\ Went("typecheck") /\ Went("lowered")
     /\ drv.source.rejected = {}) =>
        /\ drv.outcome = "returned"
        /\ drv.module_name \in DOMAIN drv.unit.modules
        /\ ExpectedOutput(drv.unit.modules[drv.module_name].output)

\* C11: when the source module contains a bare Assign, a ClassDef or an
\* AugAssign, compile_source ends by raising CompilationException with a
\* non-empty list of diagnostics covering every rejected construct of the
\* module, by no other exception kind, and neither typechecking nor lowering
\* is started.
C11_RejectedConstructsBatched ==
    (drv.pc = "done" /\ drv.source_input # "other" /\ drv.source.rejected # {}) =>
        /\ drv.outcome = "CompilationException"
        /\ drv.issues = drv.source.rejected
        /\ ~Went("typecheck") /\ ~Went("lower") /\ ~Went("lowered")

\* the place of a phase in compile_source
Rank(name) ==
    CASE name = "parse" -> 0
      [] name = "validate" -> 1
      [] name = "seed" -> 2
      [] name = "typecheck" -> 3
      [] name = "lower" -> 4
      [] name = "lowered" -> 5
      [] name = "debug" -> 6
      [] name = "return" -> 7

\* lowering has started: a function was lowered or the module's output stored
LoweringStarted ==
    Went("lower") \/ Went("lowered") \/ drv.lowered > 0 \/ drv.output # EmptyDict

\* C15: in every run of compile_source the phases occur in the order
\* validate, seed primitives, typecheck, lower: no function is lowered (no
\* builder operation, no type-store mutation by the builder) before
\* typechecking has finished, and lowering never starts when validation or
\* typechecking reported issues.
C15_PhasesInOrder ==
    drv.pc # "idle" =>
        /\ \A i, j \in DOMAIN drv.phases :
              i < j => /\ Rank(drv.phases[i]) <= Rank(drv.phases[j])
                       /\ Rank(drv.phases[i]) = Rank(drv.phases[j])
                            => drv.phases[i] = "lower"
        /\ LoweringStarted =>
              /\ Went("validate") /\ Went("seed") /\ Went("typecheck")
              /\ drv.issues = {}
              /\ drv.source.rejected = {}
        /\ ~Went("typecheck") => mapping \in {<<>>, Seeded.store}

\* a run that typechecked, lowered two functions and returned the unit
C15_Witness ==
    /\ drv.pc = "done"
    /\ drv.outcome = "returned"
    /\ drv.lowered = 2
    /\ Went("typecheck") /\ Went("lower")

(***************************************************************************)
(* driver.py: CompilationUnit.reveal_type and resolve_annotation.          *)
(***************************************************************************)
MaxTypes == 8           \* most entries of the type store while types are revealed

RevealDepth == 4        \* nested reveal_type calls before RecursionError

\* a Python constant: the name of its type and its text
py(type, text) == [type |-> type, text |-> text]

ConstantValues ==
    {py("int", "1"), py("bool", "True"), py("str", "s"), py("NoneType", "None"),
     py("float", "1.5")}

ast_BinOp(op, left, right) ==
    [node |-> "BinOp", op |-> op, left |-> left, right |-> right]

ast_Compare(left, right) == [node |-> "Compare", left |-> left, right |-> right]

ast_Call(func) == [node |-> "Call", func |-> func]

\* Scope.module when it is None
NoModule == "None"

\* language/scope.py: Scope; module is NoModule or names the module's scope
Scope(ribs, items, module) == [ribs |-> ribs, items |-> items, module |-> module]

\* a function item of a scope, typed by the checker
Function(name, type_id) == [name |-> name, type_id |-> type_id]

\* what a reveal_type call leaves: the store, how it ended, the TypeId
revealed(r) == [store |-> r.store, status |-> "ok", result |-> r.id]

failure(store, status) == [store |-> store, status |-> status, result |-> None]

\* resolve_annotation.check_builtins: builtin_map.get(type(value), Unknown)
builtin_map(type) ==
    IF type = "int" THEN Primitive("I64")
    ELSE IF type = "float" THEN Primitive("Number")
    ELSE IF type = "bool" THEN Primitive("Bool")
    ELSE IF type = "NoneType" THEN Primitive("None_")
    ELSE Unknown

\* `check_parent_scope(...) or check_builtins() or get_id_or_insert(Unknown)`
or_Unknown(r) == IF falsy(r.id) THEN get_id_or_insert(r.store, Unknown) ELSE r

\* CompilationUnit.resolve_annotation on a Constant; bool is an int in Python
resolve_annotation(store, tree) ==
    IF tree.value.type \notin {"NoneType", "str", "int", "bool"}
    THEN failure(store, "AssertionError")
    ELSE revealed(or_Unknown(get_id_or_insert(store, builtin_map(tree.value.type))))

\* `for stack in scope.ribs[::-1]: if target in stack`: the rib found, or None
RECURSIVE rib_of(_, _, _)
rib_of(ribs, target, i) ==
    IF i = 0 THEN None
    ELSE IF target \in DOMAIN ribs[i] THEN i
    ELSE rib_of(ribs, target, i - 1)

\* `for item_ in scope.items`: the first function item named target, or None
RECURSIVE func_of(_, _, _)
func_of(items, target, i) ==
    IF i > Len(items) THEN None
    ELSE IF items[i].name = target THEN i
    ELSE func_of(items, target, i + 1)

\* reveal_type on a BinOp, once both operands are revealed
binop_types(l, r) ==
    IF r.status # "ok" THEN r
    ELSE IF getitem(r.store, l.result) = Primitive("I64")
            /\ getitem(r.store, r.result) = Primitive("I64")
         THEN revealed(get_id_or_insert(r.store, Primitive("I64")))
    ELSE failure(r.store, "RuntimeError")

RECURSIVE reveal_type(_, _, _, _, _)
\* lhs is revealed; rhs is revealed next, on the store lhs left
binop_right(l, scopes, node, scope, n) ==
    IF l.status # "ok" THEN l
    ELSE binop_types(l, reveal_type(l.store, scopes, node.right, scope, n))

\* reveal_type on a Name: the ribs, the function items, then the module scope
reveal_Name(store, scopes, node, scope, n) ==
    LET s == scopes[scope]
        rib == rib_of(s.ribs, node.id, Len(s.ribs))
        func == func_of(s.items, node.id, 1)
    IN  IF rib # None
        THEN revealed(get_id_or_insert(store, s.ribs[rib][node.id]))
        ELSE IF func # None
        THEN [store |-> store, status |-> "ok", result |-> s.items[func].type_id]
        ELSE IF s.module = NoModule THEN failure(store, "AttributeError")
        ELSE reveal_type(store, scopes, node, s.module, n)

\* CompilationUnit.reveal_type; n nested calls are left before RecursionError
reveal_type(store, scopes, node, scope, n) ==
    IF n = 0 THEN failure(store, "RecursionError")
    ELSE IF node.node = "BinOp"
    THEN IF node.op \notin {"Add", "Sub"} THEN failure(store, "AssertionError")
         ELSE binop_right(reveal_type(store, scopes, node.left, scope, n - 1),
                          scopes, node, scope, n - 1)
    ELSE IF node.node = "Call"
    THEN reveal_type(store, scopes, node.func, scope, n - 1)
    ELSE IF node.node = "Compare"
    THEN revealed(get_id_or_insert(store, Primitive("Bool")))
    ELSE IF node.node = "Constant" THEN resolve_annotation(store, node)
    ELSE IF node.node = "Name" THEN reveal_Name(store, scopes, node, scope, n - 1)
    ELSE failure(store, "RuntimeError")

\* the expressions revealed
RevealNames == {"x", "f", "g", "y"}

RevealLeaves ==
    {ast_Constant(value) : value \in ConstantValues}
    \cup {ast_Name(id) : id \in RevealNames}

RevealOperands == {ast_Constant(py("int", "1")), ast_Constant(py("str", "s")), ast_Name("x")}

RevealNodes ==
    RevealLeaves
    \cup {ast_BinOp(op, left, right) :
            op \in {"Add", "Sub", "Mult"}, left \in RevealOperands, right \in RevealOperands}
    \cup {ast_Compare(ast_Name("x"), ast_Constant(py("int", "1")))}
    \cup {ast_Call(ast_Name(id)) : id \in {"f", "y"}}
    \cup {ast_Pass}

\* the ribs of a function scope: x annotated or not, once or twice
FunctionRibs ==
    {<<>>, <<"x" :> Primitive("I64")>>, <<"x" :> Unknown>>,
     <<"x" :> Primitive("I64"), "x" :> Primitive("Bool")>>}

ModuleRibs == {<<>>, <<"g" :> Primitive("I64")>>}

\* the unit revealed on: seeded, its function f typed by the checker
RevealStore == insert(Seeded.store, Callable(Seeded.i64, Seeded.i64))

\* the scope of a function and of its module.  Both carry the same module
\* link (ScopeWalker.add_item hands it down); what the root item sets it to
\* is not in the sources at hand: nothing, or the module itself.
RevealInit ==
    /\ mapping = RevealStore.store
    /\ last = NoCall
    /\ fb = FluidBlock(<<>>, None, EmptyDict)
    /\ heap = <<>> /\ contexts = <<>> /\ ebb = NoEbb /\ finalized = NoEbb
    /\ handed = <<>> /\ calls = 0 /\ fb_last = NoFbCall
    /\ mir = NotLowering
    /\ drv = NotCompiling
    /\ \E ribs \in FunctionRibs, globals \in ModuleRibs, module \in {NoModule, "module"} :
        rev = [scopes |-> [function |-> Scope(ribs, <<>>, module),
                           module |-> Scope(globals, <<Function("f", RevealStore.id)>>,
                                            module)],
               call |-> [op |-> "none"]]

\* unit.reveal_type(node, scope)
RevealType(node, scope) ==
    /\ Len(mapping) < MaxTypes
    /\ LET r == reveal_type(mapping, rev.scopes, node, scope, RevealDepth)
       IN  /\ mapping' = r.store
           /\ rev' = [rev EXCEPT !.call = [op |-> "reveal_type", node |-> node,
                                           scope |-> scope, status |-> r.status,
                                           result |-> r.result]]
    /\ UNCHANGED <<last, fluidVars, mir, drv>>

RevealNext ==
    \E node \in RevealNodes, scope \in {"function", "module"} : RevealType(node, scope)

\* C12: for every expression node n and scope s for which reveal_type
\* succeeds, two successive invocations reveal_type(n, s) on the same
\* CompilationUnit return the same TypeId.
C12_RevealTypeDeterministic ==
    [][(/\ rev.call.op = "reveal_type" /\ rev'.call.op = "reveal_type"
        /\ rev'.call.node = rev.call.node /\ rev'.call.scope = rev.call.scope
        /\ rev.call.status = "ok" /\ rev'.call.status = "ok")
       => rev'.call.result = rev.call.result]_vars

\* target is bound in no rib of the scope and names none of its function items
Unbound(target, s) ==
    /\ rib_of(s.ribs, target, Len(s.ribs)) = None
    /\ func_of(s.items, target, 1) = None

\* C13: reveal_type on a load-context Name that is bound in no rib of the
\* given scope, names no function among the scope's items and is found
\* neither way in the module's top-level scope fails with RuntimeError
\* ("We don't know jack..."), also when the given scope is the module's.
C13_UnknownNameFails ==
    (/\ rev.call.op = "reveal_type"
     /\ rev.call.node.node = "Name"
     /\ Unbound(rev.call.node.id, rev.scopes[rev.call.scope])
     /\ Unbound(rev.call.node.id, rev.scopes.module))
    => rev.call.status = "RuntimeError"

\* every Ref chain of the store ends in an entry that is not a Ref
Acyclic(store) ==
    \A type_id \in TypeIds(store) : RefChainEnds(store, type_id, Len(store))

\* C16: for every type store whose Ref chains are acyclic and every pair of
\* ids (L, R), unify(L, R) terminates, returning or failing with
\* TypeCheckError: when store[L] (resp. store[R]) is Ref(t) and neither entry
\* is Unknown the call continues as unify(t, R) (resp. unify(L, t)), so each
\* recursive step shortens a Ref chain or descends into a component.
C16_UnifyTerminates ==
    [][(last'.op = "unify" /\ Acyclic(mapping))
       => last'.status \in {"ok", "TypeCheckError"}]_storeVars

\* C17: a unify call, whether it returns or fails, never changes the number
\* of entries of the type store and overwrites only entries that hold
\* Primitive.Unknown when they are overwritten, replacing them by a Ref; every
\* entry holding a List, a Callable, a Ref or a non-Unknown Primitive is left
\* unchanged, so every TypeId issued before the call stays valid.
C17_UnifyFrame ==
    [][last'.op = "unify" =>
        /\ Len(mapping') = Len(mapping)
        /\ \A type_id \in TypeIds(mapping) :
            getitem(mapping', type_id) # getitem(mapping, type_id) =>
                /\ getitem(mapping, type_id) = Unknown
                /\ isinstance(getitem(mapping', type_id), "Ref")]_storeVars

\* a unify call has bound an Unknown entry next to a List or Callable entry
C17_Witness ==
    /\ last.op = "unify"
    /\ last.left_ty = Unknown
    /\ isinstance(getitem(mapping, last.left), "Ref")
    /\ \E type_id \in TypeIds(mapping) :
        \/ isinstance(getitem(mapping, type_id), "List")
        \/ isinstance(getitem(mapping, type_id), "Callable")

\* the op an arithmetic emitter is to give its instruction
ArithmeticOp(method) == IF method = "int_sub" THEN "ISub" ELSE "IAdd"

\* C18: the integer-subtract emitter appends exactly one instruction whose op
\* is ISub (never IAdd) over the given left and right SSA slots, and the
\* integer-add emitter appends exactly one instruction whose op is IAdd, so
\* that a BinOp lowers to IAdd for operator Add and to ISub for operator Sub.
C18_ArithmeticEmitters ==
    [][(/\ fb_last'.op \in {"int_add", "int_sub"}
        /\ fb_last'.status = "ok")
       => /\ fb.cursor \in DOMAIN fb.blocks
          /\ fb'.blocks = fb.blocks
          /\ heap' = [heap EXCEPT ![fb.blocks[fb.cursor]].body =
                          Append(@, BlockInstr(ArithmeticOp(fb_last'.op),
                                               <<fb_last'.value, fb.last_ssa_value>>,
                                               fb_last'.result))]]_vars

(***************************************************************************)
(* The specifications: each part of the program runs with the others idle. *)
(***************************************************************************)
\* a type store on its own: no block builder, no lowering, no compilation
InitStore ==
    /\ StoreInit
    /\ fb = FluidBlock(<<>>, None, EmptyDict)
    /\ heap = <<>> /\ contexts = <<>> /\ ebb = NoEbb /\ finalized = NoEbb
    /\ handed = <<>> /\ calls = 0 /\ fb_last = NoFbCall
    /\ mir = NotLowering
    /\ drv = NotCompiling
    /\ rev = NotRevealing

SpecStore == InitStore /\ [][StoreNext]_vars

\* a type store on which entries are declared and then unified: the callables
\* declared take and return the same type
UnifyInputs(store) ==
    {Primitive(k) : k \in PrimitiveKinds}
    \cup {List(k) : k \in TypeIds(store)}
    \cup {Callable(k, k) : k \in TypeIds(store)}

UnifyNext ==
    \/ \E thing \in UnifyInputs(mapping) : Insert(thing)
    \/ \E left \in TypeIds(mapping), right \in TypeIds(mapping) : Unify(left, right)

SpecUnify == InitStore /\ [][UnifyNext]_vars

\* a FluidBlock on its own, next to a fresh type store
InitFluid ==
    /\ FluidInit
    /\ StoreInit
    /\ mir = NotLowering
    /\ drv = NotCompiling
    /\ rev = NotRevealing

SpecFluid == InitFluid /\ [][FluidNext]_vars

SpecLower == LowerInit /\ [][LowerNext]_vars

SpecDriver == DriverInit /\ [][DriverNext]_vars

SpecReveal == RevealInit /\ [][RevealNext]_vars

====
